---- MODULE Spec2Model ----
(***************************************************************************)
(* Model of the POST /enhance pipeline of src/main.py (PromptOS V2):       *)
(* the per-IP sliding-window rate limiter, body validation, the tier       *)
(* branch, the deterministic enhancer, the OpenRouter rotation/retry loop  *)
(* and the fallback.                                                       *)
(*                                                                         *)
(* Strings are sequences of atoms.  An atom is either the whitespace atom  *)
(* " " or an indivisible piece of text ("diet", "technical", a template    *)
(* sentence, ...).  "" is the empty sequence; str.strip() removes leading  *)
(* and trailing whitespace atoms; str.lower() maps atoms through           *)
(* LowerAtom.                                                              *)
(***************************************************************************)
EXTENDS Integers, Sequences, FiniteSets, TLC

(* ------------------------------ bounds -------------------------------- *)

\* RATE_LIMIT_MAX / RATE_LIMIT_WINDOW are read from the environment
\* (src/main.py:34-35, defaults 30 and 60); the model runs a small
\* configuration of them.
RATE_LIMIT_MAX == 2

RATE_LIMIT_WINDOW == 2

\* Number of requests the concurrent runs let arrive.
MaxConcurrentRequests == 3

\* Last clock tick the model lets time.time() reach.
MaxTime == 3

\* Number of POST /enhance requests the model lets arrive.
MaxRequests == 4

\* Number of configured candidate models (OPENROUTER_MODELS is read from
\* the environment, src/main.py:25-27).
NumModels == 2

(* --------------------------- string helpers --------------------------- *)

WS == " "

RECURSIVE lstrip(_)
lstrip(s) == IF s = <<>> THEN s
             ELSE IF Head(s) = WS THEN lstrip(Tail(s)) ELSE s

RECURSIVE rstrip(_)
rstrip(s) == IF s = <<>> THEN s
             ELSE IF s[Len(s)] = WS THEN rstrip(SubSeq(s, 1, Len(s) - 1)) ELSE s

\* str.strip()
strip(s) == rstrip(lstrip(s))

LowerAtom(a) ==
    CASE a = "TECHNICAL" -> "technical"
      [] a = "Health"    -> "health"
      [] a = "PRO"       -> "pro"
      [] a = "Formal"    -> "formal"
      [] OTHER           -> a

\* str.lower()
lower(s) == [i \in 1..Len(s) |-> LowerAtom(s[i])]

\* s[:n]
Take(s, n) == SubSeq(s, 1, IF Len(s) < n THEN Len(s) ELSE n)

Range(s) == {s[i] : i \in 1..Len(s)}

RECURSIVE Join(_, _)
\* sep.join(list of atoms)
Join(sep, l) == IF l = <<>> THEN <<>>
                ELSE IF Len(l) = 1 THEN <<l[1]>>
                ELSE <<l[1], sep>> \o Join(sep, Tail(l))

(* ------------------------- JSON field values -------------------------- *)

\* A value found under a key of the request body: a string, a truthy
\* non-string (for example the number 5), a falsy non-string (0, false,
\* []), or None (key absent or null).
Str(s) == [k |-> "str", s |-> s]

NumVal == [k |-> "num", s |-> <<>>]

FalsyVal == [k |-> "falsy", s |-> <<>>]

NoneVal == [k |-> "none", s |-> <<>>]

\* Python truthiness of a field value.
Truthy(v) == \/ v.k = "num"
             \/ v.k = "str" /\ v.s # <<>>

\* (v or default)
OrDefault(v, d) == IF Truthy(v) THEN v ELSE Str(d)

(* ------------------------------ config -------------------------------- *)

\* src/main.py:18-24
DEFAULT_MODELS ==
    << "deepseek/deepseek-r1:free", "openai/gpt-oss-20b:free",
       "qwen/qwen2.5:free", "mistralai/mixtral-8x7b-instruct:free" >>

\* src/main.py:25-27: the configured list; here the first NumModels defaults.
OPENROUTER_MODELS == SubSeq(DEFAULT_MODELS, 1, NumModels)

\* src/main.py:31, in half-seconds: [0.5, 1.0, 2.0].
RETRY_BACKOFFS == <<1, 2, 4>>


\* src/main.py:16; "" when the credential is not configured.
ApiKeys == {<<>>, <<"sk-or">>}

(* --------------------------- client identity -------------------------- *)

\* Atoms ipaddress.ip_address() accepts.
ValidAddrs == {"1.1.1.1", "2.2.2.2", "0.0.0.0"}

\* str.split(",")[0]: the text before the first comma.
RECURSIVE FirstField(_)
FirstField(s) == IF s = <<>> \/ Head(s) = "," THEN <<>>
                 ELSE <<Head(s)>> \o FirstField(Tail(s))

\* A connection: the X-Forwarded-For header ("" when absent) and
\* request.client.host.
Conn(xff, host) == [xff |-> xff, host |-> host]

Conns ==
    { Conn(<<>>, <<"1.1.1.1">>),
      Conn(<<WS, "1.1.1.1", ",", "2.2.2.2">>, <<"2.2.2.2">>),
      Conn(<<"junk">>, <<"1.1.1.1">>),
      Conn(<<"0.0.0.0">>, <<"2.2.2.2">>) }

\* A get_client_ip that keeps the value it cannot parse.
get_client_ip_unsanitized(c) ==
    LET fwd == IF c.xff # <<>> THEN c.xff ELSE c.host
    IN  strip(FirstField(fwd))

get_client_ip(c) ==
    LET fwd == IF c.xff # <<>> THEN c.xff ELSE c.host
        ip  == strip(FirstField(fwd))
    IN  IF Len(ip) = 1 /\ ip[1] \in ValidAddrs THEN ip ELSE <<"0.0.0.0">>

\* Every key _IP_BUCKET can get.
IPs == {get_client_ip(c) : c \in Conns}

(* ----------------------------- rate limiter --------------------------- *)

\* src/main.py:85
Purge(bucket, t0) == SelectSeq(bucket, LAMBDA t : t0 - t < RATE_LIMIT_WINDOW)

\* The bucket rate_limited() stores for a rejected check.
RejectedBucketAppending(bucket, t0) == Append(Purge(bucket, t0), t0)

RejectedBucket(bucket, t0) == Purge(bucket, t0)

\* The test of src/main.py:86 on the purged bucket.
OverLimitOffByOne(purged) == Len(purged) > RATE_LIMIT_MAX

OverLimit(purged) == Len(purged) >= RATE_LIMIT_MAX

(* ------------------------ deterministic enhancer ---------------------- *)

\* src/main.py:100-104
mode_hints ==
    [ analytical |-> "You are a business/finance analyst.",
      technical  |-> "You are a senior software engineer.",
      creative   |-> "You are a creative editor." ]

\* src/main.py:105-111
tone_hints ==
    [ concise    |-> "Short, direct sentences. No filler.",
      formal     |-> "Professional, precise, no slang.",
      friendly   |-> "Warm, encouraging, and approachable.",
      persuasive |-> "Benefit-led framing with a soft CTA.",
      neutral    |-> "Balanced, objective tone." ]

\* dict.get(key, default) for a string key.
Lookup(table, key, default) ==
    IF Len(key) = 1 /\ key[1] \in DOMAIN table THEN table[key[1]] ELSE default

\* Atoms the pattern [A-Za-z0-9\-]{3,} matches, in sorted() order.
SortedTokens == <<"deploy", "diet", "plan">>

\* src/main.py:117-118
Entities(raw) ==
    LET toks   == SelectSeq(SortedTokens, LAMBDA w : w \in Range(raw))
        joined == Take(Join(", ", toks), 300)
    IN  IF joined = <<>> THEN <<"N/A">> ELSE joined

\* The response body of a 200: the keys of the JSON object and the values
\* of the keys the model follows.
Body200(keys, enhanced, improvements, model_used, note) ==
    [ keys |-> keys, enhanced |-> enhanced, improvements |-> improvements,
      model_used |-> model_used, note |-> note, error |-> <<>> ]

BodyError(msg) ==
    [ keys |-> {"error"}, enhanced |-> <<>>, improvements |-> <<>>,
      model_used |-> <<>>, note |-> <<>>, error |-> <<msg>> ]

\* The body of the framework's answer to an unhandled exception.
BodyNone ==
    [ keys |-> {}, enhanced |-> <<>>, improvements |-> <<>>,
      model_used |-> <<>>, note |-> <<>>, error |-> <<>> ]

\* src/main.py:97-153.  `enhanced` is the f-string of lines 120-145 as the
\* sequence of its literal pieces and interpolated values; element 2 is
\* the line under "# Role".
deterministic_enhance(raw0, mode, tone) ==
    LET raw == strip(raw0)
        mh  == Lookup(mode_hints, mode, mode_hints["analytical"])
        th  == Lookup(tone_hints, tone, tone_hints["concise"])
    IN  Body200({"enhanced", "improvements", "model_used"},
                <<"# Role", mh, "# Task", "# User Intent (verbatim)">>
                    \o raw
                    \o <<"# Constraints", "# Tone">> \o tone \o <<". ", th>>
                    \o <<"# Output Format", "# Quality Checks", "# Context Hints">>
                    \o Entities(raw),
                << <<"Mode preset applied: ">> \o mode,
                   <<"Tone guidance applied: ">> \o tone,
                   <<"Added structure: Role, Task, Intent, Constraints, Tone, Output, Checks">>,
                   <<"Added anti-hallucination guidance & clarifying-question allowance">>,
                   <<"Included naive entity/context hints">> >>,
                <<"deterministic-fallback">>, <<>>)

\* The line under "# Role" of a deterministic `enhanced`.
RoleOf(enhanced) == enhanced[2]

(* --------------------------- request bodies --------------------------- *)

\* What `await request.json()` yields: an exception ("notjson"), a JSON
\* value that is no object ("nonobject": a list, a number, null), or an
\* object with the four keys the handler reads.
BodyNotJson == [kind |-> "notjson", input |-> NoneVal, mode |-> NoneVal,
                  tone |-> NoneVal, tier |-> NoneVal]

BodyNonObject == [kind |-> "nonobject", input |-> NoneVal, mode |-> NoneVal,
                  tone |-> NoneVal, tier |-> NoneVal]

Obj(input, mode, tone, tier) ==
    [kind |-> "object", input |-> input, mode |-> mode, tone |-> tone, tier |-> tier]

InputTexts ==
    { <<"plan">>, <<WS, "diet", WS>>, <<"deploy", WS, "diet">>, <<"deploy">> }

EmptyTexts == { <<>>, <<WS>> }

ModeTexts ==
    { <<"auto">>, <<"analytical">>, <<"technical">>, <<WS, "TECHNICAL">>,
      <<"creative">>, <<"health">>, <<"bogus">> }

Bodies ==
    {BodyNotJson, BodyNonObject}
    \* every input against every mode, free tier
    \cup { Obj(Str(i), m, NoneVal, Str(<<"free">>)) :
             i \in InputTexts, m \in {Str(x) : x \in ModeTexts} \cup {NoneVal} }
    \* pro tier
    \cup { Obj(Str(i), m, Str(<<"Formal">>), Str(<<WS, "PRO">>)) :
             i \in {<<"plan">>, <<"deploy", WS, "diet">>},
             m \in {NoneVal, Str(<<"technical">>), Str(<<"health">>)} }
    \* missing, empty and blank input
    \cup { Obj(i, NoneVal, NoneVal, t) :
             i \in {Str(x) : x \in EmptyTexts} \cup {NoneVal},
             t \in {NoneVal, Str(<<"pro">>), Str(<<"gold">>)} }
    \* tone and tier variants
    \cup { Obj(Str(<<"plan">>), NoneVal, t, NoneVal) :
             t \in {Str(<<"formal">>), Str(<<"bogus">>), Str(<<WS>>)} }
    \cup { Obj(Str(<<"plan">>), NoneVal, NoneVal, Str(<<"gold">>)) }
    \* a field that is not a string
    \cup { Obj(NumVal, NoneVal, NoneVal, NoneVal),
           Obj(FalsyVal, NoneVal, NoneVal, NoneVal),
           Obj(Str(<<"plan">>), FalsyVal, FalsyVal, FalsyVal),
           Obj(Str(<<"plan">>), NumVal, NoneVal, NoneVal),
           Obj(Str(<<"plan">>), NoneVal, NumVal, Str(<<"pro">>)),
           Obj(Str(<<"plan">>), NoneVal, NoneVal, NumVal) }

\* (body.get(key) or default).strip().lower() raises AttributeError when
\* the value is a truthy non-string.
FieldRaises(v) == Truthy(v) /\ v.k # "str"

\* src/main.py:276
UserInput(b) == strip(OrDefault(b.input, <<>>).s)
\* src/main.py:277
ModeOf(b) == lower(strip(OrDefault(b.mode, <<"analytical">>).s))
\* src/main.py:278
ToneOf(b) == lower(strip(OrDefault(b.tone, <<"concise">>).s))
\* src/main.py:279
TierOf(b) == lower(strip(OrDefault(b.tier, <<"free">>).s))

\* Lines 276-279 raise.
FieldsRaise(b) ==
    \/ b.kind = "nonobject"
    \/ FieldRaises(b.input) \/ FieldRaises(b.mode)
    \/ FieldRaises(b.tone) \/ FieldRaises(b.tier)

(* -------------------------- provider responses ------------------------ *)

\* The message content of a 200 is a sequence of tokens: braces, text that
\* is no JSON ("junk"), the members of an object, and JSON scalars.
MemberTokens == {"enhanced:text", "enhanced:empty", "note", "model_used", "improvements"}

ScalarTokens == {"\"has enhanced inside\"", "5", "0"}

\* A parsed JSON value.  t = "none" stands for Python's None.
PyNone == [t |-> "none", keys |-> {}, enhanced |-> <<>>, truthy |-> FALSE]

PyDict(members) ==
    [ t |-> "dict",
      keys |-> { IF m \in {"enhanced:text", "enhanced:empty"} THEN "enhanced" ELSE m :
                 m \in members },
      enhanced |-> IF "enhanced:text" \in members THEN <<"provider text">> ELSE <<>>,
      truthy |-> members # {} ]

\* A JSON string (`"enhanced" in obj` is a substring test) or a number.
PyScalar(tok) ==
    [ t |-> IF tok = "\"has enhanced inside\"" THEN "str" ELSE "num",
      keys |-> IF tok = "\"has enhanced inside\"" THEN {"enhanced"} ELSE {},
      enhanced |-> <<>>, truthy |-> tok # "0" ]

\* json.loads(text): [ok |-> it returned, val |-> the value].
json_loads(text) ==
    IF Len(text) >= 2 /\ text[1] = "{" /\ text[Len(text)] = "}"
       /\ \A i \in 2..(Len(text) - 1) : text[i] \in MemberTokens
    THEN [ok |-> TRUE, val |-> PyDict({text[i] : i \in 2..(Len(text) - 1)})]
    ELSE IF Len(text) = 1 /\ text[1] \in ScalarTokens
    THEN [ok |-> TRUE, val |-> PyScalar(text[1])]
    ELSE [ok |-> FALSE, val |-> PyNone]

\* re.search(r"\{[\s\S]*\}", content): the text from the first "{" to the
\* last "}" (the match is greedy), <<>> when there is no match.
BraceRegion(content) ==
    LET opens  == {i \in 1..Len(content) : content[i] = "{"}
        closes == {i \in 1..Len(content) : content[i] = "}"}
        first  == CHOOSE i \in opens : \A j \in opens : i <= j
        last   == CHOOSE i \in closes : \A j \in closes : j <= i
    IN  IF opens = {} \/ closes = {} THEN <<>>
        ELSE IF last < first THEN <<>>
        ELSE SubSeq(content, first, last)

\* src/main.py:214-224
ExtractObj(content) ==
    LET strict == json_loads(content)
        region == BraceRegion(content)
        second == json_loads(region)
    IN  IF strict.ok THEN strict.val
        ELSE IF region # <<>> /\ second.ok THEN second.val
        ELSE PyNone

Contents ==
    { <<"{", "enhanced:text", "}">>,
      <<"{", "enhanced:text", "improvements", "note", "model_used", "}">>,
      <<"{", "enhanced:empty", "improvements", "}">>,
      <<"{", "improvements", "}">>,
      <<"{", "}">>,
      <<"junk", "{", "enhanced:text", "}", "junk">>,
      <<"{", "enhanced:text", "}", "junk", "{", "enhanced:text", "}">>,
      <<"}", "junk", "{">>,
      <<"junk">>,
      <<"\"has enhanced inside\"">>,
      <<"5">>,
      <<>> }

\* What one `await client.post(...)` resolves to: a transport error or
\* timeout, a non-200 status, or a 200 whose body is not JSON, has an empty
\* "choices", or carries a message content.
Outcomes ==
    { [kind |-> "exc", code |-> "", content |-> <<>>] }
    \cup { [kind |-> "status", code |-> c, content |-> <<>>] : c \in {"401", "429", "503"} }
    \cup { [kind |-> "badbody", code |-> "200", content |-> <<>>] }
    \cup { [kind |-> "content", code |-> "200", content |-> c] : c \in Contents }

\* No post has completed yet.
NoOutcome == [kind |-> "none", code |-> "", content |-> <<>>]

\* src/main.py:232
RetryableStatuses == {"404", "409", "422", "429", "500", "502", "503", "504"}

\* src/main.py:204-236 for one attempt: ok when line 228 returns, else the
\* value last_error gets (line 230 or line 235).
AttemptResult(o) ==
    LET obj == ExtractObj(o.content)
    IN  CASE o.kind = "exc"     -> [ok |-> FALSE, obj |-> PyNone, err |-> <<"ConnectError">>]
          [] o.kind = "status"  -> [ok |-> FALSE, obj |-> PyNone, err |-> <<o.code, " - ">>]
          [] o.kind = "badbody" -> [ok |-> FALSE, obj |-> PyNone, err |-> <<"JSONDecodeError">>]
          [] OTHER ->
               IF ~obj.truthy
               THEN [ok |-> FALSE, obj |-> PyNone,
                     err |-> <<"Non-JSON or invalid JSON from model">>]
               ELSE IF obj.t = "num"
               THEN [ok |-> FALSE, obj |-> PyNone, err |-> <<"TypeError">>]
               ELSE IF "enhanced" \notin obj.keys
               THEN [ok |-> FALSE, obj |-> PyNone,
                     err |-> <<"Non-JSON or invalid JSON from model">>]
               ELSE IF obj.t # "dict"
               THEN [ok |-> FALSE, obj |-> PyNone, err |-> <<"TypeError">>]
               ELSE [ok |-> TRUE, obj |-> obj, err |-> <<>>]

\* The response body with the provider's own "model_used" kept when its
\* object has one.
ProviderBodyKeepingModel(obj, model) ==
    Body200(obj.keys \cup {"model_used"}, obj.enhanced,
            IF "improvements" \in obj.keys THEN << <<"provider improvement">> >> ELSE <<>>,
            IF "model_used" \in obj.keys THEN <<"provider model">> ELSE <<model>>,
            IF "note" \in obj.keys THEN <<"provider note">> ELSE <<>>)

\* src/main.py:227-228 and 294: the response body built from the object.
ProviderBody(obj, model) ==
    Body200(obj.keys \cup {"model_used"}, obj.enhanced,
            IF "improvements" \in obj.keys THEN << <<"provider improvement">> >> ELSE <<>>,
            <<model>>,
            IF "note" \in obj.keys THEN <<"provider note">> ELSE <<>>)

\* src/main.py:295-300 with the exception re-raised instead of absorbed.
FallbackRaising(b, msg) == [status |-> 500, body |-> BodyNone]

\* src/main.py:295-300: the answer when openrouter_enhance raised `msg`.
Fallback(b, msg) ==
    LET fb == deterministic_enhance(UserInput(b), ModeOf(b), ToneOf(b))
    IN  [ status |-> 200,
          body |-> [fb EXCEPT !.keys = @ \cup {"note"},
                              !.note = <<"Provider unavailable: ">> \o Take(msg, 120)] ]

(* -------------------------------- state ------------------------------- *)

VARIABLES
    now,                \* time.time(), in ticks
    IP_BUCKET,          \* _IP_BUCKET: client ip -> list of timestamps
    COUNTERS,           \* COUNTERS without "since"
    OPENROUTER_API_KEY, \* the configured credential
    reqs,               \* the requests being handled, by connection slot
    nreq,               \* number of requests that have arrived
    recent,             \* history: per ip, the admissions of the trailing window
    served              \* history: the completed requests, counted by response

vars == <<now, IP_BUCKET, COUNTERS, OPENROUTER_API_KEY, reqs, nreq, recent, served>>

\* Connection slots: the requests that can be in the handler at the same
\* time.  Spec and SpecContent use slot 1 only, SpecConcurrent both.
Slots == {1, 2}

NoConn == Conn(<<>>, <<>>)

NoResp == [status |-> 0, body |-> BodyNone]

\* pc: "idle" (no request), "body" (suspended in `await request.json()`),
\* "attempt" (suspended in the sleep/post of attempt ai on model mi),
\* "responded" (the response is written).  calls counts the client.post
\* calls made, posts[k] those made for candidate k; slept is the backoff
\* slept before the last of them and o what it resolved to; raised tells
\* that openrouter_enhance raised.
IdleReq ==
    [ pc |-> "idle", conn |-> NoConn, body |-> BodyNotJson, mi |-> 0, ai |-> 0,
      last_error |-> <<>>, calls |-> 0,
      posts |-> [k \in 1..Len(OPENROUTER_MODELS) |-> 0], slept |-> 0,
      o |-> NoOutcome, raised |-> FALSE, resp |-> NoResp ]

Init ==
    /\ now = 0
    /\ IP_BUCKET = [ip \in IPs |-> <<>>]
    /\ COUNTERS = [free_calls |-> 0, pro_calls |-> 0, fallback_uses |-> 0, blocked_rate |-> 0]
    /\ OPENROUTER_API_KEY \in ApiKeys
    /\ reqs = [r \in Slots |-> IdleReq]
    /\ nreq = 0
    /\ recent = [ip \in IPs |-> <<>>]
    /\ served = [rejected |-> 0, admitted |-> 0, free |-> 0, pro |-> 0, fallback |-> 0]

Respond(r, status, body) ==
    reqs' = [reqs EXCEPT ![r].pc = "responded",
                         ![r].resp = [status |-> status, body |-> body]]

\* The response to an exception of openrouter_enhance.
RespondRaised(r, fb) ==
    reqs' = [reqs EXCEPT ![r].pc = "responded", ![r].raised = TRUE,
                         ![r].resp = [status |-> fb.status, body |-> fb.body]]

(* ------------------------------- handler ------------------------------ *)

\* src/main.py:80-92 on the bucket of `ip` at time t0.
rate_limited(ip, t0) ==
    LET bucket == Purge(IP_BUCKET[ip], t0)
    IN  IF OverLimit(bucket)
        THEN [limited |-> TRUE, bucket |-> RejectedBucket(IP_BUCKET[ip], t0)]
        ELSE [limited |-> FALSE, bucket |-> Append(bucket, t0)]

\* The branch with the tier tests swapped.
RouteSwapped(b) ==
    CASE b.kind = "notjson"       -> "bad_json"
      [] FieldsRaise(b)           -> "raise"
      [] UserInput(b) = <<>>      -> "no_input"
      [] TierOf(b) = <<"pro">>    -> "free"
      [] TierOf(b) = <<"free">>   -> "pro"
      [] OTHER                    -> "unknown_tier"

\* The branch with every tier that is not "pro" served as the free tier.
RouteDefaultFree(b) ==
    CASE b.kind = "notjson"       -> "bad_json"
      [] FieldsRaise(b)           -> "raise"
      [] UserInput(b) = <<>>      -> "no_input"
      [] TierOf(b) = <<"pro">>    -> "pro"
      [] OTHER                    -> "free"

\* src/main.py:270-302: the branch the handler takes once the body is read.
Route(b) ==
    CASE b.kind = "notjson"       -> "bad_json"
      [] FieldsRaise(b)           -> "raise"
      [] UserInput(b) = <<>>      -> "no_input"
      [] TierOf(b) = <<"free">>   -> "free"
      [] TierOf(b) = <<"pro">>    -> "pro"
      [] OTHER                    -> "unknown_tier"

\* The requests suspended at an await.
InFlight == {r \in Slots : reqs[r].pc \in {"body", "attempt"}}

\* An increment that is not atomic: the value written was read before the
\* await, so the increment of a request handled meanwhile is overwritten.
BumpLosing(counter) ==
    COUNTERS' = [COUNTERS EXCEPT ![counter] =
                    IF Cardinality(InFlight) > 1 THEN @ ELSE @ + 1]

\* An increment made twice for one event.
BumpTwice(counter) == COUNTERS' = [COUNTERS EXCEPT ![counter] = @ + 2]

\* The counters without the count of the started pro calls.
BumpSkippingPro(counter) ==
    IF counter = "pro_calls" THEN COUNTERS' = COUNTERS
    ELSE COUNTERS' = [COUNTERS EXCEPT ![counter] = @ + 1]

\* COUNTERS[counter] += 1, between two awaits.
Bump(counter) == COUNTERS' = [COUNTERS EXCEPT ![counter] = @ + 1]

\* The request arrives and the handler runs to its first suspension:
\* rate_limited() (line 267) and, when limited, the 429 of line 268.
Arrive(r, conns, bodies) ==
    /\ reqs[r].pc = "idle"
    /\ nreq < MaxRequests
    /\ \E c \in conns, b \in bodies :
         LET ip == get_client_ip(c)
             rl == rate_limited(ip, now)
         IN  /\ IP_BUCKET' = [IP_BUCKET EXCEPT ![ip] = rl.bucket]
             /\ IF rl.limited
                THEN /\ Bump("blocked_rate")
                     /\ reqs' = [reqs EXCEPT ![r] =
                            [IdleReq EXCEPT !.pc = "responded", !.conn = c, !.body = b,
                               !.resp = [status |-> 429,
                                         body |-> BodyError("Too many requests, slow down.")]]]
                     /\ UNCHANGED recent
                ELSE /\ reqs' = [reqs EXCEPT ![r] =
                            [IdleReq EXCEPT !.pc = "body", !.conn = c, !.body = b]]
                     /\ recent' = [recent EXCEPT ![ip] = Append(@, now)]
                     /\ UNCHANGED COUNTERS
    /\ nreq' = nreq + 1
    /\ UNCHANGED <<now, OPENROUTER_API_KEY, served>>

\* `await request.json()` completes and the handler runs lines 270-302 up
\* to a response or to the first `await client.post` of openrouter_enhance.
ReadBody(r) ==
    /\ reqs[r].pc = "body"
    /\ LET b     == reqs[r].body
           route == Route(b)
       IN  CASE route = "bad_json" ->
                  Respond(r, 400, BodyError("Invalid JSON body.")) /\ UNCHANGED COUNTERS
             [] route = "raise" ->
                  Respond(r, 500, BodyNone) /\ UNCHANGED COUNTERS
             [] route = "no_input" ->
                  Respond(r, 400, BodyError("input is required")) /\ UNCHANGED COUNTERS
             [] route = "free" ->
                  /\ Bump("free_calls")
                  /\ Respond(r, 200, deterministic_enhance(UserInput(b), ModeOf(b), ToneOf(b)))
             [] route = "pro" ->
                  IF OPENROUTER_API_KEY = <<>>
                  THEN LET fb == Fallback(b, <<"OPENROUTER_API_KEY not configured">>)
                       IN  /\ COUNTERS' = [COUNTERS EXCEPT !.pro_calls = @ + 1,
                                                           !.fallback_uses = @ + 1]
                           /\ RespondRaised(r, fb)
                  ELSE IF OPENROUTER_MODELS = <<>>
                  THEN LET fb == Fallback(b, <<"All model attempts failed. Last error: ", "None">>)
                       IN  /\ COUNTERS' = [COUNTERS EXCEPT !.pro_calls = @ + 1,
                                                           !.fallback_uses = @ + 1]
                           /\ RespondRaised(r, fb)
                  ELSE /\ Bump("pro_calls")
                       /\ reqs' = [reqs EXCEPT ![r].pc = "attempt", ![r].mi = 1, ![r].ai = 1]
             [] OTHER ->
                  Respond(r, 400, BodyError("unknown tier")) /\ UNCHANGED COUNTERS
    /\ UNCHANGED <<now, IP_BUCKET, OPENROUTER_API_KEY, nreq, recent, served>>

\* The loops with the rotation never leaving a candidate: when its
\* backoffs are used up the same candidate is started again.
NextAttemptNoRotation(mi, ai, o) ==
    IF ai < 1 + Len(RETRY_BACKOFFS)
    THEN [done |-> FALSE, mi |-> mi, ai |-> ai + 1]
    ELSE [done |-> FALSE, mi |-> mi, ai |-> 1]

\* src/main.py:192-237: where the loops go after a failed attempt ai
\* (1 = the attempt without backoff) on model mi.  Line 233 continues the
\* backoff loop for a status of RetryableStatuses, line 236 for an
\* exception; a status outside RetryableStatuses falls out of the try
\* statement, which ends the body of the same loop.
NextAttempt(mi, ai, o) ==
    LET next_backoff ==
            IF ai < 1 + Len(RETRY_BACKOFFS)
            THEN [done |-> FALSE, mi |-> mi, ai |-> ai + 1]
            ELSE IF mi < Len(OPENROUTER_MODELS)
            THEN [done |-> FALSE, mi |-> mi + 1, ai |-> 1]
            ELSE [done |-> TRUE, mi |-> mi, ai |-> ai]
    IN  IF o.kind = "status" /\ o.code \in RetryableStatuses
        THEN next_backoff
        ELSE next_backoff

\* src/main.py:201-203: the sleep before attempt ai on a candidate, in
\* half-seconds.
BackoffBefore(ai) == (<<0>> \o RETRY_BACKOFFS)[ai]

\* The request record once the sleep and the post of its attempt have
\* completed with outcome o.
Posted(q, o) ==
    [q EXCEPT !.calls = @ + 1, !.posts[q.mi] = @ + 1,
              !.slept = BackoffBefore(q.ai), !.o = o]

\* The backoff sleep (if any) and the post of one attempt complete.
Attempt(r, outcomes) ==
    /\ reqs[r].pc = "attempt"
    /\ \E o \in outcomes :
         LET q   == reqs[r]
             res == AttemptResult(o)
             nxt == NextAttempt(q.mi, q.ai, o)
         IN  IF res.ok
             THEN /\ reqs' = [reqs EXCEPT ![r] =
                        [Posted(q, o) EXCEPT !.pc = "responded",
                            !.resp = [status |-> 200,
                               body |-> ProviderBody(res.obj, OPENROUTER_MODELS[q.mi])]]]
                  /\ UNCHANGED COUNTERS
             ELSE IF nxt.done
             THEN LET fb == Fallback(q.body,
                               <<"All model attempts failed. Last error: ">> \o res.err)
                  IN  /\ Bump("fallback_uses")
                      /\ reqs' = [reqs EXCEPT ![r] =
                            [Posted(q, o) EXCEPT !.pc = "responded",
                                !.last_error = res.err, !.raised = TRUE,
                                !.resp = [status |-> fb.status, body |-> fb.body]]]
             ELSE /\ reqs' = [reqs EXCEPT ![r] =
                        [Posted(q, o) EXCEPT !.mi = nxt.mi, !.ai = nxt.ai,
                                             !.last_error = res.err]]
                  /\ UNCHANGED COUNTERS
    /\ UNCHANGED <<now, IP_BUCKET, OPENROUTER_API_KEY, nreq, recent, served>>

\* What the response of a completed request shows of its path: refused by
\* the rate limiter (429) or admitted; the free path or the pro path (the
\* tier of a body that got past line 281); the deterministic result with
\* a note in place of the provider's.
PathOf(q) ==
    LET admitted == q.resp.status # 429
        tier     == IF admitted /\ q.resp.status = 200 THEN TierOf(q.body) ELSE <<>>
    IN  [ rejected |-> IF admitted THEN 0 ELSE 1,
          admitted |-> IF admitted THEN 1 ELSE 0,
          free     |-> IF tier = <<"free">> THEN 1 ELSE 0,
          pro      |-> IF tier = <<"pro">> THEN 1 ELSE 0,
          fallback |-> IF /\ tier = <<"pro">>
                          /\ q.resp.body.model_used = <<"deterministic-fallback">>
                       THEN 1 ELSE 0 ]

\* The response has been sent; the slot is free for the next request.
Close(r) ==
    /\ reqs[r].pc = "responded"
    /\ reqs' = [reqs EXCEPT ![r] = IdleReq]
    /\ served' = [k \in DOMAIN served |-> served[k] + PathOf(reqs[r])[k]]
    /\ UNCHANGED <<now, IP_BUCKET, COUNTERS, OPENROUTER_API_KEY, nreq, recent>>

\* The admissions of `log` that are within the trailing window at time t0:
\* those made after t0 - RATE_LIMIT_WINDOW.
Trailing(log, t0) == SelectSeq(log, LAMBDA t : t > t0 - RATE_LIMIT_WINDOW)

\* The clock advances.
Tick ==
    /\ now < MaxTime
    /\ now' = now + 1
    /\ recent' = [ip \in IPs |-> Trailing(recent[ip], now + 1)]
    /\ UNCHANGED <<IP_BUCKET, COUNTERS, OPENROUTER_API_KEY, reqs, nreq, served>>

\* The bodies of the rate-limiter runs: not JSON, a blank input, a valid
\* free-tier request.
FewBodies ==
    { BodyNotJson,
      Obj(Str(<<WS>>), NoneVal, NoneVal, Str(<<"pro">>)),
      Obj(Str(<<"plan">>), NoneVal, NoneVal, NoneVal) }

\* The rate limiter: one request at a time from every connection, the
\* clock advancing.
Next ==
    \/ Arrive(1, Conns, FewBodies)
    \/ ReadBody(1)
    \/ Close(1)
    \/ Tick

Spec == Init /\ [][Next]_vars

\* The pipeline: one connection within one clock tick, every body of
\* Bodies and every provider outcome.
OneConn == { Conn(<<>>, <<"1.1.1.1">>) }

NextContent ==
    \/ Arrive(1, OneConn, Bodies)
    \/ ReadBody(1)
    \/ Attempt(1, Outcomes)
    \/ Close(1)

SpecContent == Init /\ [][NextContent]_vars

\* The bodies of the concurrent runs: a blank input, a valid free-tier
\* request, a valid pro-tier request.
ConcurrentBodies ==
    { Obj(Str(<<WS>>), NoneVal, NoneVal, NoneVal),
      Obj(Str(<<"plan">>), NoneVal, NoneVal, NoneVal),
      Obj(Str(<<"plan">>), NoneVal, NoneVal, Str(<<"pro">>)) }

\* The provider of the concurrent runs fails at the transport or answers
\* with a valid object.
ConcurrentOutcomes ==
    { [kind |-> "exc", code |-> "", content |-> <<>>],
      [kind |-> "content", code |-> "200", content |-> <<"{", "enhanced:text", "}">>] }

\* Requests handled concurrently on one event loop: the steps of the
\* handlers of both slots interleave at their awaits.
NextConcurrent ==
    \/ \E r \in Slots :
          \/ nreq < MaxConcurrentRequests /\ Arrive(r, OneConn, ConcurrentBodies)
          \/ ReadBody(r)
          \/ Attempt(r, ConcurrentOutcomes)
          \/ Close(r)
    \/ Tick

SpecConcurrent == Init /\ [][NextConcurrent]_vars

(* --------------------------- intended design -------------------------- *)

\* Mode Classifier of the design (spec section 4.1): one health keyword and
\* one technical keyword stand for the two keyword sets.
HealthKeywords == {"diet"}

TechnicalKeywords == {"deploy"}

infer_mode(text) ==
    LET words == Range(lower(text))
    IN  IF words \cap HealthKeywords # {} THEN "health"
        ELSE IF words \cap TechnicalKeywords # {} THEN "technical"
        ELSE "analytical"

\* The four role templates of the design (spec section 4.2): the three of
\* mode_hints and the health one.
RoleTemplates ==
    [ analytical |-> mode_hints["analytical"],
      technical  |-> mode_hints["technical"],
      creative   |-> mode_hints["creative"],
      health     |-> "You are a clinician/nutritionist." ]

\* The client identity of the design (spec section 4.3): the first value
\* of the forwarded-address header if present, else the connection
\* address; a value that is no address is the sentinel.
ClientIdentity(c) ==
    LET first == IF c.xff # <<>> THEN strip(FirstField(c.xff)) ELSE c.host
    IN  IF \E a \in ValidAddrs : first = <<a>> THEN first ELSE <<"0.0.0.0">>

(* ------------------------------- claims ------------------------------- *)

Responded(r) == reqs[r].pc = "responded"

Status(r) == reqs[r].resp.status

Answer(r) == reqs[r].resp.body

\* The request passed the rate limiter.
Admitted(r) == reqs[r].pc # "idle" /\ Status(r) # 429

\* A well-formed body: a JSON object whose fields are strings or absent.
WellFormed(b) == b.kind = "object" /\ ~FieldsRaise(b)

\* The step in which request r arrives and rate_limited() runs.
ArrivesAt(r) == reqs[r].pc = "idle" /\ reqs'[r].pc # "idle"

AllAttempts == Len(OPENROUTER_MODELS) * (1 + Len(RETRY_BACKOFFS))

\* C1: an admitted pro-tier request with non-empty input whose external
\* model call failed (every attempt on every candidate failed, or no
\* credential is configured) is answered 200 with a non-empty `enhanced`,
\* model_used = "deterministic-fallback" and a non-empty `note`.
C1_ProFallbackIs200 ==
    \A r \in Slots :
        ( /\ Responded(r) /\ Admitted(r)
          /\ WellFormed(reqs[r].body)
          /\ UserInput(reqs[r].body) # <<>>
          /\ TierOf(reqs[r].body) = <<"pro">> )
        => /\ Status(r) = 200
           /\ reqs[r].raised
                => /\ "enhanced" \in Answer(r).keys /\ Answer(r).enhanced # <<>>
                   /\ Answer(r).model_used = <<"deterministic-fallback">>
                   /\ "note" \in Answer(r).keys /\ Answer(r).note # <<>>

\* C1 witness: a pro request answered after every attempt on every
\* candidate failed.
C1_Witness ==
    \E r \in Slots :
        /\ Responded(r) /\ reqs[r].raised
        /\ TierOf(reqs[r].body) = <<"pro">>
        /\ reqs[r].calls = AllAttempts
        /\ Status(r) = 200 /\ Answer(r).note # <<>>

\* C2: an admitted free-tier request with non-empty input is answered 200
\* with a non-empty `enhanced`, whatever its mode and tone, and no call to
\* the external model was made for it.
C2_FreeIs200 ==
    \A r \in Slots :
        ( /\ Responded(r) /\ Admitted(r)
          /\ WellFormed(reqs[r].body)
          /\ UserInput(reqs[r].body) # <<>>
          /\ TierOf(reqs[r].body) = <<"free">> )
        => /\ Status(r) = 200
           /\ "enhanced" \in Answer(r).keys /\ Answer(r).enhanced # <<>>
           /\ reqs[r].calls = 0

\* C2 witness: a free request with an unknown mode answered 200.
C2_Witness ==
    \E r \in Slots :
        /\ Responded(r) /\ Status(r) = 200
        /\ TierOf(reqs[r].body) = <<"free">>
        /\ ModeOf(reqs[r].body) = <<"bogus">>
        /\ reqs[r].calls = 0

\* C3: every response status is 200, 400 or 429.
C3_StatusIs200_400_429 ==
    \A r \in Slots : Responded(r) => Status(r) \in {200, 400, 429}

\* A body validation must refuse: not JSON, or an input that is empty
\* after trim.
Invalid(b) ==
    \/ b.kind = "notjson"
    \/ b.kind = "object" /\ ~FieldsRaise(b) /\ UserInput(b) = <<>>

\* C4: validation comes before the rate limiter: a request with a
\* malformed body or an empty input is answered 400 however many requests
\* its client made, and its arrival leaves the buckets and blocked_rate
\* unchanged.
C4_ValidationBeforeRateLimit ==
    /\ [](\A r \in Slots :
            (Responded(r) /\ Invalid(reqs[r].body)) => Status(r) = 400)
    /\ [][\A r \in Slots :
            (ArrivesAt(r) /\ Invalid(reqs'[r].body))
            => /\ IP_BUCKET' = IP_BUCKET
               /\ COUNTERS'.blocked_rate = COUNTERS.blocked_rate]_vars

\* C5: a rate check is rejected if and only if at least RATE_LIMIT_MAX
\* requests of the same client identity were admitted within the trailing
\* window; so the first RATE_LIMIT_MAX requests of a window are admitted
\* and the next one is rejected.
C5_RejectedIffMaxInWindow ==
    [][\A r \in Slots :
          ArrivesAt(r) =>
             LET ip == get_client_ip(reqs'[r].conn)
             IN  (reqs'[r].resp.status = 429) <=> (Len(recent[ip]) >= RATE_LIMIT_MAX)]_vars

\* C5 witness: of RATE_LIMIT_MAX + 1 requests of one identity within one
\* window, the last is the one rejected.
C5_Witness ==
    \E r \in Slots :
        /\ Responded(r) /\ Status(r) = 429
        /\ nreq = RATE_LIMIT_MAX + 1
        /\ COUNTERS.blocked_rate = 1
        /\ Len(recent[get_client_ip(reqs[r].conn)]) = RATE_LIMIT_MAX

\* C6: a rejected check stores the bucket purged of its expired entries
\* and nothing else, and a check made when the oldest entry of the bucket
\* is older than the window is admitted.
C6_RejectedNotAppended ==
    [][\A r \in Slots :
          ArrivesAt(r) =>
             LET ip == get_client_ip(reqs'[r].conn)
             IN  /\ (reqs'[r].resp.status = 429)
                      => IP_BUCKET'[ip] = Trailing(IP_BUCKET[ip], now)
                 /\ (IP_BUCKET[ip] # <<>> /\ now - IP_BUCKET[ip][1] > RATE_LIMIT_WINDOW)
                      => reqs'[r].resp.status # 429]_vars

\* C6 witness: a client that was limited, was rejected, and is admitted
\* again once its admissions are older than the window.
C6_Witness ==
    \E r \in Slots :
        LET ip == get_client_ip(reqs[r].conn)
        IN  /\ reqs[r].pc = "body"
            /\ nreq = RATE_LIMIT_MAX + 2
            /\ COUNTERS.blocked_rate >= 1
            /\ IP_BUCKET[ip] = <<now>>
            /\ \A other \in IPs \ {ip} : IP_BUCKET[other] = <<>>

\* C7: a request changes the bucket of its own client identity only, the
\* decision on it is the one its own identity's admissions give, and the
\* values that are no address share the identity 0.0.0.0.
C7_BucketsPerIdentity ==
    [][/\ \A r \in Slots :
             ArrivesAt(r) =>
                LET id == ClientIdentity(reqs'[r].conn)
                IN  /\ \A other \in DOMAIN IP_BUCKET \ {id} :
                          IP_BUCKET'[other] = IP_BUCKET[other]
                    /\ (reqs'[r].resp.status = 429)
                          <=> (Len(Trailing(IP_BUCKET[id], now)) >= RATE_LIMIT_MAX)
       /\ (\A r \in Slots : ~ArrivesAt(r)) => IP_BUCKET' = IP_BUCKET]_vars

\* C7 witness: a request of 1.1.1.1 is admitted while the identity 0.0.0.0
\* is at its limit and has been rejected.
C7_Witness ==
    \E r \in Slots :
        /\ reqs[r].pc = "body"
        /\ ClientIdentity(reqs[r].conn) = <<"1.1.1.1">>
        /\ Len(Trailing(IP_BUCKET[<<"0.0.0.0">>], now)) = RATE_LIMIT_MAX
        /\ COUNTERS.blocked_rate >= 1

\* The response is the deterministic enhancer's.
Deterministic(r) ==
    /\ Responded(r) /\ Status(r) = 200
    /\ Answer(r).model_used = <<"deterministic-fallback">>

ValidModes == {<<"analytical">>, <<"technical">>, <<"creative">>, <<"health">>}

\* The mode the request gives, trimmed and lower-cased; "" when absent.
ModeGiven(b) == IF b.mode.k = "str" THEN lower(strip(b.mode.s)) ELSE <<>>

\* C8: with the mode absent, "auto" or unrecognized, the Role section of
\* the deterministic output is the template of the mode inferred from the
\* raw text (health before technical before analytical).
C8_RoleOfInferredMode ==
    \A r \in Slots :
        (Deterministic(r) /\ ModeGiven(reqs[r].body) \notin ValidModes)
        => RoleOf(Answer(r).enhanced)
             = RoleTemplates[infer_mode(UserInput(reqs[r].body))]

\* C9: with one of the four modes given, the Role section of the
\* deterministic output is that mode's own template, whatever the text.
C9_ExplicitModeKept ==
    \A r \in Slots :
        (Deterministic(r) /\ ModeGiven(reqs[r].body) \in ValidModes)
        => RoleOf(Answer(r).enhanced) = RoleTemplates[ModeGiven(reqs[r].body)[1]]

\* C10: every 200 response of the pro tier carries a non-empty `enhanced`.
C10_Pro200HasEnhanced ==
    \A r \in Slots :
        ( /\ Responded(r) /\ Status(r) = 200
          /\ WellFormed(reqs[r].body)
          /\ TierOf(reqs[r].body) = <<"pro">> )
        => "enhanced" \in Answer(r).keys /\ Answer(r).enhanced # <<>>

\* The 200 of request r is the deterministic result substituted for a
\* failed provider call.
FellBack(r) == reqs[r].raised

\* C11: a 200 response has the key `note` if and only if the deterministic
\* fallback was substituted for a failed pro-tier provider call, whatever
\* keys the provider's object has; and its model_used is the candidate
\* that produced it, or "deterministic-fallback" when no candidate did.
C11_NoteIffFallback ==
    \A r \in Slots :
        (Responded(r) /\ Status(r) = 200)
        => /\ ("note" \in Answer(r).keys) <=> FellBack(r)
           /\ IF reqs[r].calls > 0 /\ ~FellBack(r)
              THEN Answer(r).model_used = <<OPENROUTER_MODELS[reqs[r].mi]>>
              ELSE Answer(r).model_used = <<"deterministic-fallback">>

\* The tier the request gives, trimmed and lower-cased; "" when absent.
TierGiven(b) == IF b.tier.k = "str" THEN lower(strip(b.tier.s)) ELSE <<>>

\* A well-formed request with non-empty input whose tier is a name other
\* than "free" and "pro".
UnknownTier(b) ==
    /\ WellFormed(b) /\ UserInput(b) # <<>>
    /\ TierGiven(b) \notin {<<>>, <<"free">>, <<"pro">>}

\* C12: an admitted request with non-empty input and a tier other than
\* "free" and "pro" is answered 400 without any call to the external
\* model, and the step that answers it leaves free_calls, pro_calls and
\* fallback_uses as they were.
C12_UnknownTierIs400 ==
    /\ [](\A r \in Slots :
            (Responded(r) /\ Admitted(r) /\ UnknownTier(reqs[r].body))
            => Status(r) = 400 /\ reqs[r].calls = 0)
    /\ [][\A r \in Slots :
            (reqs[r].pc = "body" /\ reqs'[r].pc # "body" /\ UnknownTier(reqs[r].body))
            => /\ reqs'[r].pc = "responded"
               /\ COUNTERS'.free_calls = COUNTERS.free_calls
               /\ COUNTERS'.pro_calls = COUNTERS.pro_calls
               /\ COUNTERS'.fallback_uses = COUNTERS.fallback_uses]_vars

\* C12 witness: a request with input "plan" and tier "gold" answered 400
\* "unknown tier" after a free-tier request was counted.
C12_Witness ==
    \E r \in Slots :
        /\ Responded(r) /\ Status(r) = 400
        /\ TierGiven(reqs[r].body) = <<"gold">>
        /\ UserInput(reqs[r].body) = <<"plan">>
        /\ Answer(r).error = <<"unknown tier">>
        /\ COUNTERS.free_calls = 1 /\ COUNTERS.pro_calls = 0

\* The step in which a post of request r completes.
PostCompletes(r) == reqs[r].pc = "attempt" /\ reqs'[r].calls = reqs[r].calls + 1

\* After the step the caller is done with the candidate of the attempt:
\* the next attempt, if any, is the first one on the next candidate.
CandidateEnded(r) ==
    IF reqs[r].mi < Len(OPENROUTER_MODELS)
    THEN /\ reqs'[r].pc = "attempt"
         /\ reqs'[r].mi = reqs[r].mi + 1 /\ reqs'[r].ai = 1
    ELSE reqs'[r].pc = "responded"

\* A status that is neither 200 nor one of 404, 409, 422, 429, 500, 502,
\* 503, 504.
NonRetryableStatus(o) ==
    /\ o.kind = "status"
    /\ o.code \notin {"200", "404", "409", "422", "429", "500", "502", "503", "504"}

\* C13: an attempt answered with a non-200 status outside the retryable
\* set ends its candidate: the error is recorded and the next attempt, if
\* any, is on the next candidate, never on the same one.
C13_NonRetryableEndsCandidate ==
    [][\A r \in Slots :
          (PostCompletes(r) /\ NonRetryableStatus(reqs'[r].o))
          => /\ reqs'[r].last_error = <<reqs'[r].o.code, " - ">>
             /\ CandidateEnded(r)]_vars

\* A 200 whose message content yields no object with the key "enhanced":
\* neither the strict parse nor the parse of the brace region gives one
\* (an object whose "enhanced" is empty is the case of C10).
MalformedContent(o) ==
    /\ o.kind = "content"
    /\ LET obj == ExtractObj(o.content)
       IN  ~(obj.t = "dict" /\ "enhanced" \in obj.keys)

\* C14: a 200 whose content cannot be parsed into a valid object ends its
\* candidate: the same candidate is not attempted again and the caller
\* goes on to the next candidate.
C14_MalformedEndsCandidate ==
    [][\A r \in Slots :
          (PostCompletes(r) /\ MalformedContent(reqs'[r].o))
          => CandidateEnded(r)]_vars

\* C15: rotation and retry budget.  Candidates are posted to in configured
\* order, none before the attempts on the ones ahead of it are over; a
\* candidate gets at most 1 + R posts (R = Len(RETRY_BACKOFFS)); the waits
\* before successive attempts on one candidate do not decrease; every step
\* of the call is a post, and there are at most (1 + R) * |candidates| of
\* them, after which the call has returned a result or failed with the
\* last error observed.
C15_RotationAndBudget ==
    /\ [](\A r \in Slots :
            /\ \A k \in DOMAIN reqs[r].posts :
                  reqs[r].posts[k] <= 1 + Len(RETRY_BACKOFFS)
            /\ reqs[r].calls <= AllAttempts
            /\ reqs[r].pc = "attempt" => reqs[r].calls < AllAttempts
            /\ (Responded(r) /\ reqs[r].calls > 0)
                 => \/ ~reqs[r].raised /\ Status(r) = 200
                          /\ Answer(r).model_used = <<OPENROUTER_MODELS[reqs[r].mi]>>
                    \/ /\ reqs[r].raised /\ reqs[r].last_error # <<>>
                       /\ Answer(r).note =
                             <<"Provider unavailable: ",
                               "All model attempts failed. Last error: ">>
                             \o reqs[r].last_error)
    /\ [][\A r \in Slots :
            /\ (reqs[r].pc = "attempt" /\ reqs'[r] # reqs[r]) => PostCompletes(r)
            /\ PostCompletes(r) =>
                 \E k \in DOMAIN reqs[r].posts :
                    /\ reqs'[r].posts = [reqs[r].posts EXCEPT ![k] = @ + 1]
                    /\ \A j \in DOMAIN reqs[r].posts : j > k => reqs[r].posts[j] = 0
                    /\ reqs[r].posts[k] > 0 => reqs'[r].slept >= reqs[r].slept
                    /\ reqs'[r].pc = "attempt"
                         => reqs'[r].last_error = AttemptResult(reqs'[r].o).err]_vars

\* C15 witness: the call of a pro request fails after exactly 1 + R posts
\* to every candidate, the last one after the longest backoff.
C15_Witness ==
    \E r \in Slots :
        /\ Responded(r) /\ reqs[r].raised
        /\ \A k \in DOMAIN reqs[r].posts : reqs[r].posts[k] = 1 + Len(RETRY_BACKOFFS)
        /\ reqs[r].calls = AllAttempts
        /\ reqs[r].slept = RETRY_BACKOFFS[Len(RETRY_BACKOFFS)]
        /\ reqs[r].o.kind = "status"

\* A 200 whose message content yields an object with a non-empty
\* "enhanced".
ValidObject(o) ==
    /\ o.kind = "content"
    /\ LET obj == ExtractObj(o.content)
       IN  obj.t = "dict" /\ "enhanced" \in obj.keys /\ obj.enhanced # <<>>

\* C16: the first attempt that yields a valid object ends the call: the
\* request is answered 200 with model_used the identifier of the candidate
\* of that attempt, whatever model_used the provider's object has; no
\* later candidate has been or is posted to, and nothing more happens for
\* the request but the delivery of its response.
C16_FirstValidReturns ==
    [][\A r \in Slots :
          /\ (PostCompletes(r) /\ ValidObject(reqs'[r].o))
               => /\ reqs'[r].pc = "responded" /\ ~reqs'[r].raised
                  /\ reqs'[r].resp.status = 200
                  /\ reqs'[r].resp.body.model_used = <<OPENROUTER_MODELS[reqs[r].mi]>>
                  /\ reqs'[r].resp.body.enhanced = ExtractObj(reqs'[r].o.content).enhanced
                  /\ reqs'[r].posts[reqs[r].mi] = reqs[r].posts[reqs[r].mi] + 1
                  /\ \A j \in DOMAIN reqs'[r].posts :
                        j > reqs[r].mi => reqs'[r].posts[j] = 0
          /\ (Responded(r) /\ reqs'[r] # reqs[r]) => reqs'[r].pc = "idle"]_vars

\* C16 witness: the second candidate, posted to after the first one's
\* attempts failed, answers with an object that names another model; the
\* response names the second candidate.
C16_Witness ==
    \E r \in Slots :
        /\ Responded(r) /\ ~reqs[r].raised
        /\ ValidObject(reqs[r].o)
        /\ "model_used" \in Range(reqs[r].o.content)
        /\ reqs[r].mi = 2
        /\ reqs[r].posts[1] = 1 + Len(RETRY_BACKOFFS) /\ reqs[r].posts[2] = 1
        /\ Answer(r).model_used = <<OPENROUTER_MODELS[2]>>

AllIdle == \A r \in Slots : reqs[r].pc = "idle"

\* C17: under every interleaving of concurrently handled requests the
\* updates of the shared state are atomic: the bucket of an identity holds
\* every admission of its trailing window (none is lost), an identity has
\* at most RATE_LIMIT_MAX admissions in a window (two checks never both
\* take the last free slot), and once every request is complete
\* free_calls, pro_calls, fallback_uses and blocked_rate are the numbers
\* of free-path requests, pro-path requests, fallbacks and rejected checks.
C17_AtomicUpdates ==
    /\ \A ip \in IPs :
          /\ Trailing(IP_BUCKET[ip], now) = recent[ip]
          /\ Len(recent[ip]) <= RATE_LIMIT_MAX
    /\ AllIdle =>
          /\ COUNTERS.free_calls = served.free
          /\ COUNTERS.pro_calls = served.pro
          /\ COUNTERS.fallback_uses = served.fallback
          /\ COUNTERS.blocked_rate = served.rejected

\* C17 witness: while a pro request is between two posts, a request of
\* the same identity finds the bucket full and is rejected; the pro
\* request and the rejection are both counted.
C17_Witness ==
    \E r1, r2 \in Slots :
        /\ reqs[r1].pc = "attempt" /\ reqs[r1].calls > 0
        /\ Responded(r2) /\ Status(r2) = 429
        /\ get_client_ip(reqs[r1].conn) = get_client_ip(reqs[r2].conn)
        /\ Len(recent[get_client_ip(reqs[r1].conn)]) = RATE_LIMIT_MAX
        /\ COUNTERS.pro_calls = served.pro + 1
        /\ COUNTERS.blocked_rate = 1

\* The 429 responses issued so far: those delivered and those written.
Issued429 ==
    served.rejected + Cardinality({r \in Slots : Responded(r) /\ Status(r) = 429})

\* C18: a rate-limited request short-circuits.  The step of its check
\* answers it 429 with the error body alone, whatever its body is, adds
\* exactly one to blocked_rate and leaves free_calls, pro_calls and
\* fallback_uses as they were; nothing more is done for it (no body read,
\* no enhancement, no external call); and blocked_rate is at all times the
\* number of 429 responses issued.
C18_RateLimitedShortCircuits ==
    /\ [](COUNTERS.blocked_rate = Issued429)
    /\ [][\A r \in Slots :
            /\ (ArrivesAt(r) /\ reqs'[r].resp.status = 429)
                 => /\ reqs'[r].pc = "responded"
                    /\ reqs'[r].resp.body = BodyError("Too many requests, slow down.")
                    /\ reqs'[r].calls = 0
                    /\ COUNTERS' = [COUNTERS EXCEPT !.blocked_rate = @ + 1]
            /\ (Responded(r) /\ Status(r) = 429 /\ reqs'[r] # reqs[r])
                 => reqs'[r].pc = "idle" /\ COUNTERS' = COUNTERS]_vars

\* C18 witness: a valid free-tier request is rejected after RATE_LIMIT_MAX
\* free-tier requests of its client were served; free_calls stays at
\* RATE_LIMIT_MAX.
C18_Witness ==
    \E r \in Slots :
        /\ Responded(r) /\ Status(r) = 429
        /\ Route(reqs[r].body) = "free"
        /\ Answer(r).keys = {"error"}
        /\ COUNTERS.blocked_rate = 1
        /\ COUNTERS.free_calls = RATE_LIMIT_MAX

\* The requests the rate limiter has admitted so far: those completed and
\* those being handled.
AdmittedSoFar ==
    served.admitted + Cardinality({r \in Slots : Admitted(r)})

\* C19: over every sequence and interleaving of requests, no counter ever
\* decreases; fallback_uses <= pro_calls; free_calls + pro_calls is at most
\* the number of requests the rate limiter admitted; and a request counts
\* in at most one of free_calls, pro_calls and blocked_rate, once:
\* blocked_rate grows by one only in the step in which a request arrives
\* and is refused, free_calls or pro_calls (never both) by one only in the
\* step in which an admitted request's body has been read, a point a
\* request passes once.
C19_CounterInvariant ==
    /\ [](/\ COUNTERS.fallback_uses <= COUNTERS.pro_calls
          /\ COUNTERS.free_calls + COUNTERS.pro_calls <= AdmittedSoFar
          /\ COUNTERS.free_calls + COUNTERS.pro_calls + COUNTERS.blocked_rate <= nreq)
    /\ [][/\ \A k \in DOMAIN COUNTERS : COUNTERS'[k] >= COUNTERS[k]
          /\ (COUNTERS'.free_calls - COUNTERS.free_calls)
               + (COUNTERS'.pro_calls - COUNTERS.pro_calls)
               + (COUNTERS'.blocked_rate - COUNTERS.blocked_rate) <= 1
          /\ COUNTERS'.blocked_rate # COUNTERS.blocked_rate
               => \E r \in Slots : ArrivesAt(r) /\ reqs'[r].pc = "responded"
          /\ (\/ COUNTERS'.free_calls # COUNTERS.free_calls
              \/ COUNTERS'.pro_calls # COUNTERS.pro_calls)
               => \E r \in Slots : reqs[r].pc = "body" /\ reqs'[r].pc # "body"
          /\ \A r \in Slots :
               reqs'[r].pc = "body" => reqs[r].pc \in {"idle", "body"}]_vars

\* C19 witness: of three requests one was served on the free tier, one
\* was a pro request that fell back, and one was refused.
C19_Witness ==
    /\ COUNTERS = [free_calls |-> 1, pro_calls |-> 1, fallback_uses |-> 1,
                   blocked_rate |-> 1]
    /\ AdmittedSoFar = 2
    /\ nreq = 3

====
